---- MODULE Spec2Model ----
(***************************************************************************)
(* The useOpenbookTwap hook of the front-end: the five transaction         *)
(* builders and crankMarket, over the handles the hook closes over         *)
(* (wallet.publicKey, the openbook client, the TWAP program).              *)
(*                                                                         *)
(* Numbers.  A JavaScript number is modelled as an exact rational          *)
(* [n |-> numerator, d |-> denominator > 0]; a BN (arbitrary precision) is *)
(* a little-endian sequence of base-Base limbs without trailing zero limb. *)
(* Public keys are tuples of strings, derived addresses are tagged tuples  *)
(* of what they are derived from.                                          *)
(***************************************************************************)
EXTENDS Integers, Sequences, FiniteSets, TLC

VARIABLES
    walletPublicKey,   \* wallet.publicKey of useWallet(): Null or a key
    provider,          \* useProvider() is defined
    openbook,          \* useOpenbook() is defined
    call,              \* the builder call in flight, with its inputs
    result             \* what that call produced

vars == <<walletPublicKey, provider, openbook, call, result>>

-----------------------------------------------------------------------------
(* Bounds of the explored inputs *)

MaxAmountN == 2     \* amount ranges over 0, 3/2, .., MaxAmountN * 3/2
MaxPriceN == 2      \* price ranges over 0, 3/2, .., MaxPriceN * 3/2 times QUOTE_LOTS
MaxOffset == 1      \* indexOffset ranges over absent, 0 .. MaxOffset
MaxCounter == 1     \* createdCounter of a fetched indexer, 0 .. MaxCounter
MaxNodes == 22      \* nodes of a fetched event heap, 0 .. MaxNodes
MaxKeys == 2        \* distinct maker/owner keys among the heap's events
MaxOrderId == 1     \* order ids handed to settle, close and cancel

AmountDen == 1 + 1  \* amounts come in halves
PriceSub == 1 + 1   \* prices come in halves of QUOTE_LOTS

-----------------------------------------------------------------------------
(* Values *)

Null == <<"null">>
Wallets == {<<"wallet", "A">>, <<"wallet", "B">>}
MarketKeys == {<<"market", "pass">>, <<"market", "fail">>}
ProposalKeys == {<<"proposal", "0">>}

OptBool == {"true", "false", "undefined"}
Truthy(b) == b = "true"

\* An optional number: <<>> when absent, <<k>> when present.
OrZero(o) == IF o = <<>> THEN 0 ELSE o[1]

Floor(x) == x.n \div x.d
Div(x, y) == [n |-> x.n * y.d, d |-> x.d * y.n]
Num(k) == [n |-> k, d |-> 1]

\* lib/constants QUOTE_LOTS = 0.0001
QUOTE_LOTS == [n |-> 1, d |-> 10000]

-----------------------------------------------------------------------------
(* BN: arbitrary-precision naturals *)

Base == 10 * 10 * 10

RECURSIVE BNOfNat(_)
BNOfNat(k) == IF k = 0 THEN <<>> ELSE <<k % Base>> \o BNOfNat(k \div Base)

RECURSIVE BNStrip(_)
BNStrip(a) ==
    IF a = <<>> THEN <<>>
    ELSE IF a[Len(a)] = 0 THEN BNStrip(SubSeq(a, 1, Len(a) - 1))
    ELSE a

RECURSIVE BNAddC(_, _, _)
BNAddC(a, b, carry) ==
    IF a = <<>> /\ b = <<>>
    THEN BNOfNat(carry)
    ELSE LET x == IF a = <<>> THEN 0 ELSE Head(a)
             y == IF b = <<>> THEN 0 ELSE Head(b)
             s == x + y + carry
         IN  <<s % Base>> \o BNAddC(IF a = <<>> THEN <<>> ELSE Tail(a),
                                    IF b = <<>> THEN <<>> ELSE Tail(b),
                                    s \div Base)

BNAdd(a, b) == BNStrip(BNAddC(a, b, 0))

RECURSIVE BNMulLimb(_, _, _)
BNMulLimb(a, k, carry) ==
    IF a = <<>> THEN BNOfNat(carry)
    ELSE LET p == Head(a) * k + carry
         IN  <<p % Base>> \o BNMulLimb(Tail(a), k, p \div Base)

RECURSIVE BNMul(_, _)
BNMul(a, b) ==
    IF b = <<>> THEN <<>>
    ELSE BNAdd(BNStrip(BNMulLimb(a, Head(b), 0)),
               BNStrip(<<0>> \o BNMul(a, Tail(b))))

\* new BN(1_000_000_000_000_000) = Base^5
BN_1e15 == <<0, 0, 0, 0, 0, 1>>

\* BN.toString(): the decimal digits, most significant first
LimbDigits(l) == <<l \div 100, (l \div 10) % 10, l % 10>>

RECURSIVE BNDigits(_)
BNDigits(a) == IF a = <<>> THEN <<>> ELSE BNDigits(Tail(a)) \o LimbDigits(Head(a))

RECURSIVE StripLeading(_)
StripLeading(ds) ==
    IF ds = <<>> THEN <<0>>
    ELSE IF Head(ds) = 0 THEN StripLeading(Tail(ds))
    ELSE ds

BNToString(a) == StripLeading(BNDigits(a))

-----------------------------------------------------------------------------
(* Addresses and accounts *)

MarketOf(k) ==
    [publicKey |-> k,
     account |-> [baseMint |-> <<"baseMint", k[2]>>,
                  quoteMint |-> <<"quoteMint", k[2]>>,
                  asks |-> <<"asks", k[2]>>,
                  bids |-> <<"bids", k[2]>>,
                  eventHeap |-> <<"eventHeap", k[2]>>,
                  marketAuthority |-> <<"marketAuthority", k[2]>>,
                  marketBaseVault |-> <<"marketBaseVault", k[2]>>,
                  marketQuoteVault |-> <<"marketQuoteVault", k[2]>>]]

Markets == {MarketOf(k) : k \in MarketKeys}

ProposalOf(k) ==
    [publicKey |-> k,
     account |-> [baseVault |-> <<"baseVault", k[2]>>,
                  quoteVault |-> <<"quoteVault", k[2]>>]]

Proposals == {ProposalOf(k) : k \in ProposalKeys}

\* useConditionalVault().getVaultMint: the vault account of a vault address
GetVaultMint(vault) ==
    [conditionalOnFinalizeTokenMint |-> <<"finalizeMint", vault[1], vault[2]>>,
     conditionalOnRevertTokenMint |-> <<"revertMint", vault[1], vault[2]>>]

GetAssociatedTokenAddressSync(mint, owner) == <<"ata", mint, owner>>

FindOpenOrdersIndexer(owner) == <<"OpenOrdersIndexer", owner>>

FindOpenOrders(index, owner) == <<"OpenOrders", owner, index>>

TwapMarket(marketKey) == <<"twap_market", marketKey>>

ShortKey(k) == <<"short", k>>

OPENBOOK_PROGRAM_ID == <<"program", "openbook">>
TOKEN_PROGRAM_ID == <<"program", "token">>
SYSTEM_PROGRAM == <<"program", "11111111111111111111111111111111">>

-----------------------------------------------------------------------------
(* Instructions *)

Ix(program, method, args, accounts, remaining) ==
    [program |-> program, method |-> method, args |-> args,
     accounts |-> accounts, remainingAccounts |-> remaining]

CreateOpenOrdersIndexerInstruction(openOrdersIndexer, owner) ==
    Ix("openbook", "createOpenOrdersIndexer", <<>>,
       [openOrdersIndexer |-> openOrdersIndexer, owner |-> owner, payer |-> owner],
       <<>>)

\* returns [ixs, openOrdersAccount]
CreateOpenOrdersInstruction(marketKey, accountIndex, name, owner, openOrdersIndexer) ==
    LET openOrdersAccount == FindOpenOrders(accountIndex, owner)
    IN  <<  << Ix("openbook", "createOpenOrdersAccount", [name |-> name],
                  [openOrdersIndexer |-> openOrdersIndexer,
                   openOrdersAccount |-> openOrdersAccount,
                   market |-> marketKey, owner |-> owner, payer |-> owner],
                  <<>>) >>,
            openOrdersAccount >>

Undefined == [outcome |-> "undefined", txs |-> <<>>, sent |-> FALSE]
Returned(txs) == [outcome |-> "returned", txs |-> txs, sent |-> FALSE]
Rejected == [outcome |-> "rejected", txs |-> <<>>, sent |-> FALSE]
Idle == [outcome |-> "idle", txs |-> <<>>, sent |-> FALSE]

NoCall == [op |-> "none", ran |-> FALSE]

\* a call that returned at its guard, before reading any of its arguments
Bailed(op) == [op |-> op, ran |-> FALSE]

\* Transaction: the instructions in order
LegacyTx(ixs) ==
    [version |-> "legacy", instructions |-> ixs,
     payerKey |-> Null, recentBlockhash |-> Null]

\* VersionedTransaction(MessageV0.compile(..))
V0Tx(payerKey, ixs, blockhash) ==
    [version |-> "v0", instructions |-> ixs,
     payerKey |-> payerKey, recentBlockhash |-> blockhash]

\* useMemo: the TWAP program exists exactly when the provider does
openbookTwap == provider

\* faulty variant: the guard without the TWAP program
TwapHandlesMissing_NoTwap == walletPublicKey = Null \/ ~openbook

\* the guard of place, crank and cancel
TwapHandlesMissing == walletPublicKey = Null \/ ~openbook \/ ~openbookTwap

\* the guard of settle and close
HandlesMissing == walletPublicKey = Null \/ ~openbook

-----------------------------------------------------------------------------
(* placeOrderTransactions *)

Amounts == {[n |-> 3 * a, d |-> AmountDen] : a \in 0..MaxAmountN}
Prices == {[n |-> 3 * p, d |-> QUOTE_LOTS.d * PriceSub] : p \in 0..MaxPriceN}
PassValues == {"true", "false"}
Offsets == {<<>>} \cup {<<k>> : k \in 0..MaxOffset}
\* openOrdersIndexer.fetch: <<>> when it throws, <<createdCounter>> otherwise
IndexerFetches == {<<>>} \cup {<<c>> : c \in 0..MaxCounter}

\* faulty variant: the catch branch forgets the offset
AccountIndex_NoOffsetInCatch(fetched, indexOffset) ==
    IF fetched # <<>>
    THEN BNOfNat(OrZero(fetched) + 1 + OrZero(indexOffset))
    ELSE BNOfNat(1)

AccountIndex(fetched, indexOffset) ==
    IF fetched # <<>>
    THEN BNOfNat(OrZero(fetched) + 1 + OrZero(indexOffset))
    ELSE IF OrZero(indexOffset) = 0
         THEN BNOfNat(1)
         ELSE BNOfNat(1 + OrZero(indexOffset))

\* the instructions openTx holds after the catch block
IndexerIxs(fetched, indexOffset, wallet) ==
    IF fetched = <<>> /\ OrZero(indexOffset) = 0
    THEN <<CreateOpenOrdersIndexerInstruction(FindOpenOrdersIndexer(wallet), wallet)>>
    ELSE <<>>

\* faulty variant: a market bid keeps the quote limit computed from the supplied price
PlaceOrderArgs_StaleQuoteLimit(amount, price, limitOrder, ask, accountIndex) ==
    LET priceLots0 == BNOfNat(Floor(Div(price, QUOTE_LOTS)))
        maxBaseLots == BNOfNat(Floor(amount))
    IN  [side |-> IF Truthy(ask) THEN "Ask" ELSE "Bid",
         priceLots |-> IF ~Truthy(limitOrder)
                       THEN IF Truthy(ask) THEN BNOfNat(1) ELSE BN_1e15
                       ELSE priceLots0,
         maxBaseLots |-> maxBaseLots,
         maxQuoteLotsIncludingFees |->
             IF ~Truthy(limitOrder) /\ Truthy(ask)
             THEN BNOfNat(Floor(Div(Num(10), QUOTE_LOTS)))
             ELSE BNMul(priceLots0, maxBaseLots),
         clientOrderId |-> accountIndex,
         orderType |-> IF Truthy(limitOrder) THEN "Limit" ELSE "Market",
         expiryTimestamp |-> <<>>,
         selfTradeBehavior |-> "AbortTransaction",
         limit |-> 255]

PlaceOrderArgs(amount, price, limitOrder, ask, accountIndex) ==
    LET priceLots0 == BNOfNat(Floor(Div(price, QUOTE_LOTS)))
        maxBaseLots == BNOfNat(Floor(amount))
        priceLots ==
            IF ~Truthy(limitOrder)
            THEN IF Truthy(ask) THEN BNOfNat(1) ELSE BN_1e15
            ELSE priceLots0
        maxQuoteLotsIncludingFees ==
            IF ~Truthy(limitOrder)
            THEN IF Truthy(ask)
                 THEN BNOfNat(Floor(Div(Num(10), QUOTE_LOTS)))
                 ELSE BNMul(priceLots, maxBaseLots)
            ELSE BNMul(priceLots0, maxBaseLots)
    IN  [side |-> IF Truthy(ask) THEN "Ask" ELSE "Bid",
         priceLots |-> priceLots,
         maxBaseLots |-> maxBaseLots,
         maxQuoteLotsIncludingFees |-> maxQuoteLotsIncludingFees,
         clientOrderId |-> accountIndex,
         orderType |-> IF Truthy(limitOrder) THEN "Limit" ELSE "Market",
         expiryTimestamp |-> <<>>,
         selfTradeBehavior |-> "AbortTransaction",
         limit |-> 255]

\* faulty variant: the user token account is always that of the quote mint
PlaceOrderAccounts_QuoteMint(market, ask, openOrdersAccount, wallet) ==
    [openOrdersAccount |-> openOrdersAccount,
     asks |-> market.account.asks,
     bids |-> market.account.bids,
     eventHeap |-> market.account.eventHeap,
     market |-> market.publicKey,
     marketVault |-> IF Truthy(ask) THEN market.account.marketBaseVault
                     ELSE market.account.marketQuoteVault,
     twapMarket |-> TwapMarket(market.publicKey),
     userTokenAccount |->
         GetAssociatedTokenAddressSync(market.account.quoteMint, wallet),
     openbookProgram |-> OPENBOOK_PROGRAM_ID]

PlaceOrderAccounts(market, ask, openOrdersAccount, wallet) ==
    LET mint == IF Truthy(ask) THEN market.account.baseMint
                ELSE market.account.quoteMint
    IN  [openOrdersAccount |-> openOrdersAccount,
         asks |-> market.account.asks,
         bids |-> market.account.bids,
         eventHeap |-> market.account.eventHeap,
         market |-> market.publicKey,
         marketVault |-> IF Truthy(ask) THEN market.account.marketBaseVault
                         ELSE market.account.marketQuoteVault,
         twapMarket |-> TwapMarket(market.publicKey),
         userTokenAccount |-> GetAssociatedTokenAddressSync(mint, wallet),
         openbookProgram |-> OPENBOOK_PROGRAM_ID]

PlaceTx(amount, price, market, limitOrder, ask, indexOffset, fetched, wallet) ==
    LET accountIndex == AccountIndex(fetched, indexOffset)
        created == CreateOpenOrdersInstruction(
                       market.publicKey, accountIndex,
                       <<ShortKey(wallet), "-", BNToString(accountIndex)>>,
                       wallet, FindOpenOrdersIndexer(wallet))
        openTx == IndexerIxs(fetched, indexOffset, wallet) \o created[1]
    IN  openTx
        \o << Ix("openbookTwap", "placeOrder",
                 PlaceOrderArgs(amount, price, limitOrder, ask, accountIndex),
                 PlaceOrderAccounts(market, ask, created[2], wallet),
                 <<>>) >>

PlaceOrderTransactions ==
    \E amount \in Amounts, price \in Prices, market \in Markets,
       limitOrder \in OptBool, ask \in OptBool, pass \in PassValues,
       indexOffset \in Offsets, fetched \in IndexerFetches :
        /\ result = Idle
        /\ IF TwapHandlesMissing
           THEN /\ call' = Bailed("placeOrder")
                /\ result' = Undefined
           ELSE /\ call' = [op |-> "placeOrder", ran |-> TRUE,
                            amount |-> amount, price |-> price,
                            market |-> market, limitOrder |-> limitOrder,
                            ask |-> ask, pass |-> pass,
                            indexOffset |-> indexOffset, fetched |-> fetched]
                /\ result' = Returned(<< LegacyTx(
                       PlaceTx(amount, price, market, limitOrder, ask,
                               indexOffset, fetched, walletPublicKey)) >>)
        /\ UNCHANGED <<walletPublicKey, provider, openbook>>

-----------------------------------------------------------------------------
(* crankMarketTransactions and crankMarket *)

TooBig == 20

\* The event heap an eventHeap.fetch returns: n nodes over m keys, fill events
\* (eventType 0) at the even places and out events at the odd ones.
HeapOf(n, m) ==
    [i \in 1..n |-> [eventType |-> i % 2, key |-> <<"openOrders", i % m>>]]

\* eventHeap.fetch: "throws", "null", or the heap
HeapFetches ==
    {<<"throws">>, <<"null">>}
        \cup {<<"heap", HeapOf(n, m)>> : n \in 0..MaxNodes, m \in 1..MaxKeys}

EventKeys == {<<"openOrders", k>> : k \in 0..(MaxKeys - 1)}
IndividualEvents == {<<>>} \cup {<<k>> : k \in EventKeys}

\* coder.types.decode builds a new PublicKey object for each node: ref is the
\* object's identity, key its value (fillEvent.maker or outEvent.owner).
Decode(nodes, i) == [ref |-> i, key |-> nodes[i].key]

\* accounts.filter((a) => a !== x).concat([x]): !== compares identities
FilterConcat(accounts, x) ==
    LET Other(a) == a.ref # x.ref
    IN  Append(SelectSeq(accounts, Other), x)

\* the for loop from node i on; capped is the branch without individualEvent
RECURSIVE CollectAccounts(_, _, _, _)
CollectAccounts(nodes, i, accounts, capped) ==
    IF i > Len(nodes) THEN accounts
    ELSE LET next == FilterConcat(accounts, Decode(nodes, i))
         IN  IF capped /\ Len(next) > TooBig
             THEN next
             ELSE CollectAccounts(nodes, i + 1, next, capped)

AccountMetaOf(a) == [pubkey |-> a.key, isSigner |-> FALSE, isWritable |-> TRUE]

FilteredAccounts(fetchedHeap, individualEvent) ==
    LET accounts ==
            IF fetchedHeap[1] = "heap"
            THEN CollectAccounts(fetchedHeap[2], 1, <<>>, individualEvent = <<>>)
            ELSE <<>>
        accountsMeta == [i \in 1..Len(accounts) |-> AccountMetaOf(accounts[i])]
        Same(order) == order.pubkey = individualEvent[1]
    IN  IF individualEvent # <<>>
        THEN SelectSeq(accountsMeta, Same)
        ELSE accountsMeta

CrankIx(market, filteredAccounts) ==
    Ix("openbook", "consumeEvents",
       [limit |-> BNOfNat(Len(filteredAccounts))],
       [consumeEventsAdmin |-> OPENBOOK_PROGRAM_ID,
        market |-> market.publicKey,
        eventHeap |-> market.account.eventHeap],
       filteredAccounts)

\* provider.wallet.publicKey
ProviderWallet == <<"provider", "wallet">>
Blockhashes == {<<"blockhash", "h">>}
\* getLatestBlockhash: <<>> when it rejects
BlockhashFetches == {<<>>} \cup {<<b>> : b \in Blockhashes}

CrankCall(op, market, fetchedHeap, individualEvent, latest) ==
    [op |-> op, ran |-> TRUE, market |-> market, fetchedHeap |-> fetchedHeap,
     individualEvent |-> individualEvent, latest |-> latest]

CrankResult(market, fetchedHeap, individualEvent, latest) ==
    IF fetchedHeap[1] = "throws" \/ latest = <<>>
    THEN Rejected
    ELSE Returned(<< V0Tx(ProviderWallet,
                          << CrankIx(market,
                                     FilteredAccounts(fetchedHeap, individualEvent)) >>,
                          latest[1]) >>)

CrankMarketTransactions ==
    \E market \in Markets, fetchedHeap \in HeapFetches,
       individualEvent \in IndividualEvents, latest \in BlockhashFetches :
        /\ result = Idle
        /\ IF TwapHandlesMissing
           THEN /\ call' = Bailed("crankTransactions")
                /\ result' = Undefined
           ELSE /\ call' = CrankCall("crankTransactions", market, fetchedHeap,
                                     individualEvent, latest)
                /\ result' = CrankResult(market, fetchedHeap, individualEvent, latest)
        /\ UNCHANGED <<walletPublicKey, provider, openbook>>

\* crankMarket: the transactions, when there are any, go to sender.send
CrankMarket ==
    \E market \in Markets, fetchedHeap \in HeapFetches,
       individualEvent \in IndividualEvents, latest \in BlockhashFetches :
        /\ result = Idle
        /\ IF TwapHandlesMissing
           THEN /\ call' = Bailed("crankMarket")
                /\ result' = Undefined
           ELSE LET r == CrankResult(market, fetchedHeap, individualEvent, latest)
                IN  /\ call' = CrankCall("crankMarket", market, fetchedHeap,
                                         individualEvent, latest)
                    /\ result' = [r EXCEPT !.sent = (r.outcome = "returned")]
        /\ UNCHANGED <<walletPublicKey, provider, openbook>>

-----------------------------------------------------------------------------
(* settleFundsTransactions, closeOpenOrdersAccountTransactions,            *)
(* cancelOrderTransactions                                                 *)

OrderIds == {BNOfNat(k) : k \in 0..MaxOrderId}

\* faulty variant: only the base account follows passMarket
SettleAccounts_QuoteAlwaysFail(orderId, passMarket, proposal, market, wallet) ==
    LET quoteVault == GetVaultMint(proposal.account.quoteVault)
        baseVault == GetVaultMint(proposal.account.baseVault)
    IN  [owner |-> wallet,
         penaltyPayer |-> wallet,
         openOrdersAccount |-> FindOpenOrders(orderId, wallet),
         market |-> market.publicKey,
         marketAuthority |-> market.account.marketAuthority,
         marketBaseVault |-> market.account.marketBaseVault,
         marketQuoteVault |-> market.account.marketQuoteVault,
         userBaseAccount |->
             GetAssociatedTokenAddressSync(
                 IF passMarket THEN baseVault.conditionalOnFinalizeTokenMint
                 ELSE baseVault.conditionalOnRevertTokenMint, wallet),
         userQuoteAccount |->
             GetAssociatedTokenAddressSync(
                 quoteVault.conditionalOnRevertTokenMint, wallet),
         referrerAccount |-> Null,
         tokenProgram |-> TOKEN_PROGRAM_ID,
         systemProgram |-> SYSTEM_PROGRAM]

SettleAccounts(orderId, passMarket, proposal, market, wallet) ==
    LET quoteVault == GetVaultMint(proposal.account.quoteVault)
        baseVault == GetVaultMint(proposal.account.baseVault)
        userBasePass == GetAssociatedTokenAddressSync(
                            baseVault.conditionalOnFinalizeTokenMint, wallet)
        userQuotePass == GetAssociatedTokenAddressSync(
                            quoteVault.conditionalOnFinalizeTokenMint, wallet)
        userBaseFail == GetAssociatedTokenAddressSync(
                            baseVault.conditionalOnRevertTokenMint, wallet)
        userQuoteFail == GetAssociatedTokenAddressSync(
                            quoteVault.conditionalOnRevertTokenMint, wallet)
    IN  [owner |-> wallet,
         penaltyPayer |-> wallet,
         openOrdersAccount |-> FindOpenOrders(orderId, wallet),
         market |-> market.publicKey,
         marketAuthority |-> market.account.marketAuthority,
         marketBaseVault |-> market.account.marketBaseVault,
         marketQuoteVault |-> market.account.marketQuoteVault,
         userBaseAccount |-> IF passMarket THEN userBasePass ELSE userBaseFail,
         userQuoteAccount |-> IF passMarket THEN userQuotePass ELSE userQuoteFail,
         referrerAccount |-> Null,
         tokenProgram |-> TOKEN_PROGRAM_ID,
         systemProgram |-> SYSTEM_PROGRAM]

SettleFundsTransactions ==
    \E orderId \in OrderIds, passMarket \in BOOLEAN,
       proposal \in Proposals, market \in Markets :
        /\ result = Idle
        /\ IF HandlesMissing
           THEN /\ call' = Bailed("settleFunds")
                /\ result' = Undefined
           ELSE /\ call' = [op |-> "settleFunds", ran |-> TRUE,
                            orderId |-> orderId, passMarket |-> passMarket,
                            proposal |-> proposal, market |-> market]
                /\ result' = Returned(<< LegacyTx(
                       << Ix("openbook", "settleFunds", <<>>,
                             SettleAccounts(orderId, passMarket, proposal,
                                            market, walletPublicKey),
                             <<>>) >>) >>)
        /\ UNCHANGED <<walletPublicKey, provider, openbook>>

CloseOpenOrdersAccountTransactions ==
    \E orderId \in OrderIds :
        /\ result = Idle
        /\ IF HandlesMissing
           THEN /\ call' = Bailed("closeOpenOrdersAccount")
                /\ result' = Undefined
           ELSE /\ call' = [op |-> "closeOpenOrdersAccount", ran |-> TRUE,
                            orderId |-> orderId]
                /\ result' = Returned(<< LegacyTx(
                       << Ix("openbook", "closeOpenOrdersAccount", <<>>,
                             [owner |-> walletPublicKey,
                              openOrdersIndexer |->
                                  FindOpenOrdersIndexer(walletPublicKey),
                              openOrdersAccount |->
                                  FindOpenOrders(orderId, walletPublicKey),
                              solDestination |-> walletPublicKey],
                             <<>>) >>) >>)
        /\ UNCHANGED <<walletPublicKey, provider, openbook>>

CancelOrderTransactions ==
    \E orderId \in OrderIds, market \in Markets :
        /\ result = Idle
        /\ IF TwapHandlesMissing
           THEN /\ call' = Bailed("cancelOrder")
                /\ result' = Undefined
           ELSE /\ call' = [op |-> "cancelOrder", ran |-> TRUE,
                            orderId |-> orderId, market |-> market]
                /\ result' = Returned(<< LegacyTx(
                       << Ix("openbookTwap", "cancelOrderByClientId",
                             [clientOrderId |-> orderId],
                             [openOrdersAccount |->
                                  FindOpenOrders(orderId, walletPublicKey),
                              asks |-> market.account.asks,
                              bids |-> market.account.bids,
                              market |-> market.publicKey,
                              twapMarket |-> TwapMarket(market.publicKey),
                              openbookProgram |-> OPENBOOK_PROGRAM_ID],
                             <<>>) >>) >>)
        /\ UNCHANGED <<walletPublicKey, provider, openbook>>

-----------------------------------------------------------------------------
(* The hook's environment.  A callback closes over the handles of the render *)
(* that made it, so a call in flight keeps the handles it started with: the  *)
(* handles change only between calls.                                        *)

SetWallet ==
    \E w \in Wallets \cup {Null} :
        /\ result = Idle
        /\ w # walletPublicKey
        /\ walletPublicKey' = w
        /\ UNCHANGED <<provider, openbook, call, result>>

SetProvider ==
    /\ result = Idle
    /\ provider' = ~provider
    /\ UNCHANGED <<walletPublicKey, openbook, call, result>>

SetOpenbook ==
    /\ result = Idle
    /\ openbook' = ~openbook
    /\ UNCHANGED <<walletPublicKey, provider, call, result>>

\* the caller takes the builder's result
TakeResult ==
    /\ result # Idle
    /\ result' = Idle
    /\ call' = NoCall
    /\ UNCHANGED <<walletPublicKey, provider, openbook>>

Init ==
    /\ walletPublicKey = Null
    /\ provider = FALSE
    /\ openbook = FALSE
    /\ call = NoCall
    /\ result = Idle

Next ==
    \/ SetWallet
    \/ SetProvider
    \/ SetOpenbook
    \/ PlaceOrderTransactions
    \/ CrankMarketTransactions
    \/ CrankMarket
    \/ SettleFundsTransactions
    \/ CloseOpenOrdersAccountTransactions
    \/ CancelOrderTransactions
    \/ TakeResult

Spec == Init /\ [][Next]_vars

-----------------------------------------------------------------------------
(* Properties *)

BuilderOps == {"placeOrder", "crankTransactions", "settleFunds",
               "closeOpenOrdersAccount", "cancelOrder"}

\* the instruction each intent maps to: <<program, method>>
IntentOf(op) ==
    CASE op = "placeOrder" -> <<"openbookTwap", "placeOrder">>
      [] op = "crankTransactions" -> <<"openbook", "consumeEvents">>
      [] op = "settleFunds" -> <<"openbook", "settleFunds">>
      [] op = "closeOpenOrdersAccount" -> <<"openbook", "closeOpenOrdersAccount">>
      [] op = "cancelOrder" -> <<"openbookTwap", "cancelOrderByClientId">>

\* the handles the call of op found missing, read off the hook's state
MissingFor(op) ==
    \/ walletPublicKey = Null
    \/ ~openbook
    \/ (op \in {"placeOrder", "crankTransactions", "cancelOrder"} /\ ~provider)

IntentIxs(tx, op) ==
    {i \in 1..Len(tx.instructions) :
        <<tx.instructions[i].program, tx.instructions[i].method>> = IntentOf(op)}

\* exactly one transaction, whose last instruction is the only one of the intent
OneTxFor(op) ==
    /\ result.outcome = "returned"
    /\ Len(result.txs) = 1
    /\ IntentIxs(result.txs[1], op) = {Len(result.txs[1].instructions)}

\* a remote call the builder awaits outside any try block failed
AwaitFailed ==
    /\ call.op = "crankTransactions"
    /\ call.ran
    /\ (call.fetchedHeap[1] = "throws" \/ call.latest = <<>>)

PlacedIx == result.txs[1].instructions[Len(result.txs[1].instructions)]

PlaceReturned == call.op = "placeOrder" /\ result.outcome = "returned"

\* C2: in a place-order transaction the side, the market vault and the user
\* token account all follow the ask flag: Ask, base vault, account of the base
\* mint when ask is set; Bid, quote vault, account of the quote mint otherwise.
C2_SideVaultAccountAgree ==
    PlaceReturned =>
        LET m == call.market.account
        IN  IF call.ask = "true"
            THEN /\ PlacedIx.args.side = "Ask"
                 /\ PlacedIx.accounts.marketVault = m.marketBaseVault
                 /\ PlacedIx.accounts.userTokenAccount
                        = <<"ata", m.baseMint, walletPublicKey>>
            ELSE /\ PlacedIx.args.side = "Bid"
                 /\ PlacedIx.accounts.marketVault = m.marketQuoteVault
                 /\ PlacedIx.accounts.userTokenAccount
                        = <<"ata", m.quoteMint, walletPublicKey>>

\* a market ask on the pass market, placed with pass set and an index offset
C2_Witness ==
    /\ PlaceReturned
    /\ call.ask = "true" /\ call.limitOrder = "undefined" /\ call.pass = "true"
    /\ call.indexOffset = <<1>>
    /\ PlacedIx.args.side = "Ask"

SettledIx == result.txs[1].instructions[1]

SettleReturned == call.op = "settleFunds" /\ result.outcome = "returned"

\* C3: a settle instruction takes both user accounts from the same outcome:
\* the finalize mints of the proposal's base and quote vaults when passMarket,
\* the revert mints otherwise; owner and penaltyPayer are the connected wallet.
C3_SettlePairsSameOutcome ==
    SettleReturned =>
        LET a == SettledIx.accounts
            kind == IF call.passMarket THEN "finalizeMint" ELSE "revertMint"
            base == call.proposal.account.baseVault
            quote == call.proposal.account.quoteVault
        IN  /\ a.userBaseAccount
                   = <<"ata", <<kind, base[1], base[2]>>, walletPublicKey>>
            /\ a.userQuoteAccount
                   = <<"ata", <<kind, quote[1], quote[2]>>, walletPublicKey>>
            /\ a.userBaseAccount[2][1] = a.userQuoteAccount[2][1]
            /\ a.owner = walletPublicKey
            /\ a.penaltyPayer = walletPublicKey

\* a settle on the pass market by wallet B
C3_Witness ==
    /\ SettleReturned
    /\ call.passMarket
    /\ walletPublicKey = <<"wallet", "B">>
    /\ SettledIx.accounts.userQuoteAccount[2][1] = "finalizeMint"

PlaceIxs == result.txs[1].instructions

\* the methods of the instructions of the place transaction, in order
PlaceMethods == [i \in 1..Len(PlaceIxs) |-> PlaceIxs[i].method]

\* the index the claim gives, as a number
C4_Index ==
    IF call.fetched # <<>>
    THEN call.fetched[1] + 1 + (IF call.indexOffset = <<>> THEN 0 ELSE call.indexOffset[1])
    ELSE IF call.indexOffset = <<>> \/ call.indexOffset = <<0>>
         THEN 1
         ELSE 1 + call.indexOffset[1]

C4_IndexerCreated ==
    call.fetched = <<>> /\ (call.indexOffset = <<>> \/ call.indexOffset = <<0>>)

\* C4: the open-orders index is createdCounter + 1 + indexOffset when the
\* indexer fetch succeeds, 1 with a create-indexer instruction first when it
\* fails and indexOffset is absent or 0, 1 + indexOffset without one when it
\* fails and indexOffset is not 0; the create instructions precede placeOrder.
C4_AccountIndex ==
    PlaceReturned =>
        /\ PlacedIx.args.clientOrderId = <<C4_Index>>
        /\ PlacedIx.accounts.openOrdersAccount
               = <<"OpenOrders", walletPublicKey, <<C4_Index>> >>
        /\ PlaceMethods[Len(PlaceMethods)] = "placeOrder"
        /\ \A i \in 1..(Len(PlaceMethods) - 1) :
               PlaceMethods[i] \in {"createOpenOrdersIndexer", "createOpenOrdersAccount"}
        /\ \E i \in 1..(Len(PlaceMethods) - 1) :
               /\ PlaceMethods[i] = "createOpenOrdersAccount"
               /\ PlaceIxs[i].accounts.openOrdersAccount
                      = PlacedIx.accounts.openOrdersAccount
        /\ IF C4_IndexerCreated
           THEN {i \in 1..Len(PlaceMethods) :
                    PlaceMethods[i] = "createOpenOrdersIndexer"} = {1}
           ELSE \A i \in 1..Len(PlaceMethods) :
                    PlaceMethods[i] # "createOpenOrdersIndexer"

\* the fetch failed and an offset was given: index 1 + offset, no indexer created
C4_Witness ==
    /\ PlaceReturned
    /\ call.fetched = <<>> /\ call.indexOffset = <<1>>
    /\ PlacedIx.args.clientOrderId = <<2>>
    /\ Len(PlaceIxs) = 2

\* k is floor(x / QUOTE_LOTS): k * QUOTE_LOTS <= x < (k + 1) * QUOTE_LOTS
IsFloorOfLots(k, x) ==
    /\ k * QUOTE_LOTS.n * x.d <= x.n * QUOTE_LOTS.d
    /\ x.n * QUOTE_LOTS.d < (k + 1) * QUOTE_LOTS.n * x.d

IsFloor(k, x) == k * x.d <= x.n /\ x.n < (k + 1) * x.d

\* the number a BN stands for
RECURSIVE ValueOf(_)
ValueOf(bn) == IF bn = <<>> THEN 0 ELSE bn[1] + Base * ValueOf(Tail(bn))

\* bn is 10^15 times the BN b
IsE15Times(bn, b) == IF b = <<>> THEN bn = <<>> ELSE bn = <<0, 0, 0, 0, 0>> \o b

\* C5: a limit order carries priceLots = floor(price / QUOTE_LOTS), maxBaseLots
\* = floor(amount) and their product as quote limit, with type Limit; a market
\* ask carries priceLots 1 and quote limit floor(10 / QUOTE_LOTS); a market bid
\* carries priceLots 10^15 and 10^15 * maxBaseLots; the price plays no part in
\* the arguments of a market order.
C5_PriceAndQuoteLimits ==
    PlaceReturned =>
        LET a == PlacedIx.args
        IN  /\ IsFloor(ValueOf(a.maxBaseLots), call.amount)
            /\ IF call.limitOrder = "true"
               THEN /\ a.orderType = "Limit"
                    /\ IsFloorOfLots(ValueOf(a.priceLots), call.price)
                    /\ ValueOf(a.maxQuoteLotsIncludingFees)
                           = ValueOf(a.priceLots) * ValueOf(a.maxBaseLots)
               ELSE /\ a.orderType = "Market"
                    /\ IF call.ask = "true"
                       THEN /\ a.priceLots = <<1>>
                            /\ IsFloorOfLots(ValueOf(a.maxQuoteLotsIncludingFees),
                                             [n |-> 10, d |-> 1])
                       ELSE /\ a.priceLots = <<0, 0, 0, 0, 0, 1>>
                            /\ IsE15Times(a.maxQuoteLotsIncludingFees, a.maxBaseLots)

\* a market bid for 3 lots at a price of 3 QUOTE_LOTS
C5_Witness ==
    /\ PlaceReturned
    /\ call.limitOrder = "false" /\ call.ask = "false"
    /\ call.price.n = 6 /\ call.amount.n = 6
    /\ PlacedIx.args.maxQuoteLotsIncludingFees = <<0, 0, 0, 0, 0, 3>>

====
